---------------------------- MODULE Spec2Model ----------------------------
(***************************************************************************)
(* A model of global-react-state: one global state cell created by         *)
(* createGlobalState, the component instances that observe it through the  *)
(* hook, and the registry (updateStates) of their observer callbacks.      *)
(*                                                                         *)
(* The repository holds three implementations of the cell:                 *)
(*   "index"  src/index.ts (src/unnamed/part_000 is the same code without  *)
(*            the exported types): registration in the effect, guarded     *)
(*            swap-with-last cleanup, literal-only setter, getter;         *)
(*   "super"  src/unnamed/part_001 lines 1-70 (createSuperState):          *)
(*            registration in the effect, unguarded cleanup, no getter;    *)
(*   "rich"   src/unnamed/part_001 lines 71-175: registration during the   *)
(*            first render, guarded cleanup, updater and initializer       *)
(*            functions resolved.                                          *)
(* The variable variant says which of them built the cell.                 *)
(*                                                                         *)
(* React is the host: useState/setState and the effect scheduling are      *)
(* modelled by what React documents (a function handed to useState is      *)
(* called as a lazy initializer, a function handed to setState is called   *)
(* as an updater of the previous local state).                             *)
(***************************************************************************)
EXTENDS Integers, Sequences, FiniteSets

\* ------------------------------------------------------------- bounds
\* Number of component instances that may ever use the hook.
MaxInst == 3
Inst == 1..MaxInst

\* ------------------------------------------------------------- values
\* A JavaScript value is a pair <<kind, n>>.
Num(n) == <<"num", n>>
NaN == <<"nan", 0>>
Undefined == <<"undefined", 0>>
\* () => expensiveInit(), a zero-argument initializer (returns the number 1).
Initializer == <<"function", 0>>
\* An updater function handed to the setter, as in the README's
\* setMyState(oldValue => oldValue + 1); the one used here is
\* oldValue => 1 - oldValue, which keeps the numbers within 0..1.
Updater == <<"function", 1>>

InitializerResult == Num(1)

typeofFunction(x) == x[1] = "function"

\* f(x) for the functions above; x = Undefined is a call without arguments.
\* 1 - x is NaN when x is undefined, NaN or a function.
Call(f, x) ==
    IF f = Initializer THEN InitializerResult
    ELSE IF x[1] = "num" THEN Num(1 - x[2])
    ELSE NaN

\* How many times a call of f runs the initializer. (The setter is never
\* handed the initializer, so only constructions and first renders call it.)
InitializerRuns(f) == IF f = Initializer THEN 1 ELSE 0

\* The arguments createGlobalState and the setter are called with.
CtorArgs == {Num(0), Initializer}
SetterArgs == {Num(0), Num(1), Updater}

Variants == {"index", "super", "rich"}

VARIABLES
    variant,        \* which implementation built the cell
    initialState,   \* the argument createGlobalState was called with
    currentState,   \* let currentState
    updateStates,   \* const updateStates: the registry, 0 is an undefined entry
    _index,         \* updateState._index of each instance's callback, -1 unset
    state,          \* each instance's local React state (useState)
    phase,          \* "none", "rendered" (first render returned), "mounted"
                    \* (effect ran), "unmounted" (cleanup ran)
    initCalls,      \* how many times the initializer function has run
    last,           \* the operation just performed and what it returned
    lastSet,        \* argument of the most recent setter call (Undefined: none)
    written,        \* value the construction or the latest setter call stored
    stack,          \* the setter calls in progress, the outermost first
    other           \* a second cell, made by another createGlobalState call

vars == <<variant, initialState, currentState, updateStates, _index, state,
          phase, initCalls, last, lastSet, written, stack, other>>

\* ------------------------------------------------------- host (React)
\* useState(initial): the local state of a first render. React calls a
\* function argument without arguments as a lazy initializer.
useState(initial) ==
    IF typeofFunction(initial) THEN Call(initial, Undefined) ELSE initial

\* setState(x) on an instance whose local state is prev. React calls a
\* function argument as an updater of the previous local state.
setState(prev, x) ==
    IF typeofFunction(x) THEN Call(x, prev) ELSE x

\* ------------------------------------------------- JavaScript arrays
\* arr[idx] = x for a 0-based idx: replaces an element, or grows the array
\* (the skipped positions are undefined entries, written 0).
AssignAt(arr, idx, x) ==
    IF idx < 0 THEN arr
    ELSE [k \in 1..(IF idx + 1 > Len(arr) THEN idx + 1 ELSE Len(arr)) |->
            IF k = idx + 1 THEN x
            ELSE IF k <= Len(arr) THEN arr[k]
            ELSE 0]

\* arr.pop(): the removed last element, 0 (undefined) for an empty array.
PopValue(arr) == IF Len(arr) = 0 THEN 0 ELSE arr[Len(arr)]
PopRest(arr) == IF Len(arr) = 0 THEN arr ELSE SubSeq(arr, 1, Len(arr) - 1)

\* --------------------------------------------------------- the cell
\* let currentState = ...: the richer variant calls an initializer function,
\* the others store the argument as it is.
Construct(v, init) ==
    IF v = "rich" /\ typeofFunction(init)
    THEN Call(init, Undefined)
    ELSE init

\* Initializer calls made by the construction.
ConstructCalls(v, init) ==
    IF v = "rich" /\ typeofFunction(init)
    THEN InitializerRuns(init)
    ELSE 0

\* The value the setter assigns to currentState: the richer variant calls an
\* updater function with the current value, the others store the argument.
NewState(v, arg, cur) ==
    IF v = "rich" /\ typeofFunction(arg) THEN Call(arg, cur) ELSE arg

\* const updateState = () => { setState(currentState); } of the instance whose
\* local state is prev. React keeps no state for an unmounted instance (its
\* local state is undefined from the unmount on): setState does nothing there.
updateState(prev, cur, unmounted) ==
    IF unmounted THEN prev ELSE setState(prev, cur)

\* Mutant: the loop runs from the last index down to the first.
RECURSIVE RunLoopDescending(_, _, _, _, _, _)
RunLoopDescending(k, reg, cur, snaps, gone, inv) ==
    LET at == Len(reg) + 1 - k
    IN  IF k > Len(reg) THEN [state |-> snaps, invoked |-> inv, threw |-> FALSE]
        ELSE IF reg[at] = 0
        THEN [state |-> snaps, invoked |-> inv, threw |-> TRUE]
        ELSE RunLoopDescending(k + 1, reg, cur,
                 [snaps EXCEPT ![reg[at]] = updateState(@, cur, reg[at] \in gone)],
                 gone, Append(inv, reg[at]))

\* The setter's loop from position k (1-based) on: for (i...) updateStates[i]()
\* An undefined entry throws a TypeError that ends the loop. gone is the set
\* of unmounted instances, inv the callbacks invoked so far.
RECURSIVE RunLoop(_, _, _, _, _, _)
RunLoop(k, reg, cur, snaps, gone, inv) ==
    IF k > Len(reg) THEN [state |-> snaps, invoked |-> inv, threw |-> FALSE]
    ELSE IF reg[k] = 0 THEN [state |-> snaps, invoked |-> inv, threw |-> TRUE]
    ELSE RunLoop(k + 1, reg, cur,
                 [snaps EXCEPT ![reg[k]] = updateState(@, cur, reg[k] \in gone)],
                 gone, Append(inv, reg[k]))

\* updateState._index = updateStates.push(updateState) - 1
Register(reg, idx, i) ==
    [updateStates |-> Append(reg, i),
     _index |-> [idx EXCEPT ![i] = Len(reg)]]

\* Where registration happens: during the first render in the richer variant,
\* in the mount effect in the others.
RegistersAtRender(v) == v = "rich"

\* Mutant: the render registers whenever the variant registers at render.
RegistersInThisRenderAlways(v, first) == RegistersAtRender(v)
\* Whether this hook call registers a callback: if (!updateStateRef.current),
\* true in the first render only.
RegistersInThisRender(v, first) == first /\ RegistersAtRender(v)

\* Whether the cleanup swaps only when the popped item is another one.
GuardedSwap(v) == v # "super"

\* Mutant: the cleanup removes the item in place (splice) and moves every
\* later item one position down.
DeregisterSplice(v, reg, idx, i) ==
    [updateStates |-> [k \in 1..(Len(reg) - 1) |->
                          IF k <= idx[i] THEN reg[k] ELSE reg[k + 1]],
     _index |-> [j \in DOMAIN idx |->
                    IF j # i /\ idx[j] > idx[i] THEN idx[j] - 1 ELSE idx[j]],
     threw |-> FALSE]

\* Mutant: the cleanup moves the last item but leaves its _index as it was.
DeregisterKeepsIndex(v, reg, idx, i) ==
    LET lastUpdateState == PopValue(reg)
        popped == PopRest(reg)
    IN  IF GuardedSwap(v) /\ lastUpdateState = i
        THEN [updateStates |-> popped, _index |-> idx, threw |-> FALSE]
        ELSE [updateStates |-> AssignAt(popped, idx[i], lastUpdateState),
              _index |-> idx,
              threw |-> lastUpdateState = 0]

\* The effect's cleanup: pop the last item and swap it into this item's place.
Deregister(v, reg, idx, i) ==
    LET lastUpdateState == PopValue(reg)
        popped == PopRest(reg)
    IN  IF GuardedSwap(v) /\ lastUpdateState = i
        THEN [updateStates |-> popped, _index |-> idx, threw |-> FALSE]
        ELSE [updateStates |-> AssignAt(popped, idx[i], lastUpdateState),
              _index |-> IF lastUpdateState = 0 THEN idx
                         ELSE [idx EXCEPT ![lastUpdateState] = idx[i]],
              threw |-> lastUpdateState = 0]

\* The setter every hook call and createGlobalState return: the one closure
\* setGlobalState made at construction.
SetterOfCell == <<"closure", 0>>
\* Mutant: the hook makes a setter of its own for each instance.
HookSetterPerInstance(i) == <<"closure", i>>
HookSetter(i) == SetterOfCell

\* Mutant: the getter returns the value the cell was constructed with.
getGlobalStateInitial == Construct(variant, initialState)
\* const getGlobalState = () => currentState
getGlobalState == currentState

\* ------------------------------------------------------------ ghosts
NoOp ==
    [op |-> "create", first |-> FALSE, ret |-> Undefined,
     setter |-> SetterOfCell, invoked |-> << >>, threw |-> FALSE,
     nested |-> FALSE, cell |-> "this"]

\* The variables one createGlobalState call makes, and the instances of its
\* hook: let currentState = initialState; const updateStates = [].
CreateCell(v, init) ==
    [currentState |-> Construct(v, init),
     updateStates |-> << >>,
     _index |-> [i \in Inst |-> -1],
     state |-> [i \in Inst |-> Undefined],
     phase |-> [i \in Inst |-> "none"]]

\* The argument of the second createGlobalState call.
OtherInitialState == Num(0)

\* ------------------------------------------------------------- Init
InitOf(vs) ==
    /\ variant \in vs
    /\ initialState \in CtorArgs
    /\ currentState = Construct(variant, initialState)
    /\ initCalls = ConstructCalls(variant, initialState)
    /\ written = Construct(variant, initialState)
    /\ last = NoOp
    /\ updateStates = << >>
    /\ _index = [i \in Inst |-> -1]
    /\ state = [i \in Inst |-> Undefined]
    /\ phase = [i \in Inst |-> "none"]
    /\ lastSet = Undefined
    /\ stack = << >>
    /\ other = CreateCell(variant, OtherInitialState)

Init == InitOf(Variants)

\* ---------------------------------------------------------- actions
\* useGlobalState() called by instance i: a first render or a re-render.
\* Instances are numbered in the order of their first renders.
UseGlobalState(i) ==
    /\ phase[i] \in {"none", "rendered", "mounted"}
    /\ i > 1 => phase[i - 1] # "none"
    /\ LET first == phase[i] = "none"
           snap == IF first THEN useState(currentState) ELSE state[i]
           r == IF RegistersInThisRender(variant, first)
                THEN Register(updateStates, _index, i)
                ELSE [updateStates |-> updateStates, _index |-> _index]
       IN  /\ state' = [state EXCEPT ![i] = snap]
           /\ updateStates' = r.updateStates
           /\ _index' = r._index
           /\ phase' = [phase EXCEPT ![i] = IF first THEN "rendered" ELSE @]
           /\ initCalls' = initCalls
                + (IF first /\ typeofFunction(currentState)
                   THEN InitializerRuns(currentState) ELSE 0)
           /\ last' = [NoOp EXCEPT !.op = "render", !.first = first, !.ret = snap,
                          !.setter = HookSetter(i)]
    /\ UNCHANGED <<variant, initialState, currentState, lastSet, written,
                   stack, other>>

\* The mount effect of instance i runs (useEffect(..., [])).
Effect(i) ==
    /\ phase[i] = "rendered"
    /\ LET r == IF RegistersAtRender(variant)
                THEN [updateStates |-> updateStates, _index |-> _index]
                ELSE Register(updateStates, _index, i)
       IN  /\ updateStates' = r.updateStates
           /\ _index' = r._index
    /\ phase' = [phase EXCEPT ![i] = "mounted"]
    /\ last' = [NoOp EXCEPT !.op = "effect"]
    /\ UNCHANGED <<variant, initialState, currentState, state, initCalls,
                   lastSet, written, stack, other>>

\* Instance i unmounts: the effect's cleanup runs, once, and React drops the
\* instance's local state.
Cleanup(i) ==
    /\ phase[i] = "mounted"
    /\ LET r == Deregister(variant, updateStates, _index, i)
       IN  /\ updateStates' = r.updateStates
           /\ _index' = r._index
           /\ last' = [NoOp EXCEPT !.op = "cleanup", !.threw = r.threw]
    /\ phase' = [phase EXCEPT ![i] = "unmounted"]
    /\ state' = [state EXCEPT ![i] = Undefined]
    /\ UNCHANGED <<variant, initialState, currentState, initCalls, lastSet,
                   written, stack, other>>

\* Mutant: the setter drops every callback once it has invoked them.
SetGlobalStateOnce(arg) ==
    LET new == NewState(variant, arg, currentState)
        r == RunLoop(1, updateStates, new, state,
                     {i \in Inst : phase[i] = "unmounted"}, << >>)
    IN  /\ currentState' = new
        /\ state' = r.state
        /\ updateStates' = << >>
        /\ last' = [NoOp EXCEPT !.op = "set", !.invoked = r.invoked,
                       !.threw = r.threw]
        /\ lastSet' = arg
        /\ written' = new
        /\ UNCHANGED <<variant, initialState, _index, phase, initCalls, stack,
                       other>>

\* setGlobalState(arg), called from outside any observer callback, none of
\* which calls back into the cell.
SetGlobalState(arg) ==
    LET new == NewState(variant, arg, currentState)
        r == RunLoop(1, updateStates, new, state,
                     {i \in Inst : phase[i] = "unmounted"}, << >>)
    IN  /\ currentState' = new
        /\ state' = r.state
        /\ last' = [NoOp EXCEPT !.op = "set", !.invoked = r.invoked,
                       !.threw = r.threw]
        /\ lastSet' = arg
        /\ written' = new
        /\ UNCHANGED <<variant, initialState, updateStates, _index, phase,
                       initCalls, stack, other>>

\* getGlobalState(); createSuperState returns no getter.
GetGlobalState ==
    /\ variant # "super"
    /\ last' = [NoOp EXCEPT !.op = "get", !.ret = getGlobalState]
    /\ UNCHANGED <<variant, initialState, currentState, updateStates, _index,
                   state, phase, initCalls, lastSet, written, stack, other>>

Next ==
    \/ \E i \in Inst : UseGlobalState(i)
    \/ \E i \in Inst : Effect(i)
    \/ \E i \in Inst : Cleanup(i)
    \/ \E arg \in SetterArgs : SetGlobalState(arg)
    \/ GetGlobalState

Spec == Init /\ [][Next]_vars

\* One specification per implementation.
NextSuper ==
    \/ \E i \in Inst : UseGlobalState(i)
    \/ \E i \in Inst : Effect(i)
    \/ \E i \in Inst : Cleanup(i)
    \/ \E arg \in SetterArgs : SetGlobalState(arg)

InitIndex == InitOf({"index"})
InitSuper == InitOf({"super"})
InitRich == InitOf({"rich"})
SpecIndex == InitIndex /\ [][Next]_vars
SpecSuper == InitSuper /\ [][NextSuper]_vars
SpecRich == InitRich /\ [][Next]_vars

\* ------------------------------------------- setter calls in progress
\* React may run code of the application synchronously inside setState (a
\* synchronous re-render, a layout effect, an unmount): an observer callback
\* may then call the setter again or unmount an instance before it returns.
\* The setter is taken one loop iteration at a time here.
MaxDepth == 2
MaxLoopInst == 2
LoopInst == 1..MaxLoopInst

\* A setter call that has assigned currentState and starts its loop: i is
\* the loop variable, cb tells that updateStates[i - 1]() has not returned,
\* inv lists the callbacks the call invoked, arg is the value it assigned,
\* nested tells that a callback of this call called the setter.
Frame(new) ==
    [i |-> 0, cb |-> FALSE, inv |-> << >>, arg |-> new, nested |-> FALSE]

Top == stack[Len(stack)]
Idle == stack = << >>
InCallback == stack # << >> /\ Top.cb

\* Mutant: the loop stops one slot before the end of the array.
LoopStopsEarly(i, reg) == i + 1 < Len(reg)
\* i < updateStates.length, read from the array as it is at the test.
LoopContinues(i, reg) == i < Len(reg)

\* Mutant: the callback passes on the value the call that invokes it assigned.
ObservedStateOfCall(own, cur) == own
\* setState(currentState): the callback reads the cell's variable when it is
\* invoked, whichever call assigned it (own is the invoking call's value).
ObservedState(own, cur) == cur

\* currentState = newState of a call made while depth calls are in progress.
Assign(arg) ==
    LET new == NewState(variant, arg, currentState)
    IN  /\ currentState' = new
        /\ stack' = Append([k \in 1..Len(stack) |->
                               [stack[k] EXCEPT !.nested =
                                   @ \/ k = Len(stack)]],
                           Frame(new))
        /\ lastSet' = arg
        /\ written' = new
        /\ last' = [NoOp EXCEPT !.op = "call"]
        /\ UNCHANGED <<variant, initialState, updateStates, _index, state,
                       phase, initCalls, other>>

\* setGlobalState(arg) called from outside any observer callback.
CallSetGlobalState(arg) == Idle /\ Assign(arg)

\* setGlobalState(arg) called before the callback being invoked returns.
NestedSetGlobalState(arg) ==
    /\ InCallback
    /\ Len(stack) < MaxDepth
    /\ Assign(arg)

\* One iteration of the innermost loop: updateStates[i]() is called, i++.
\* An undefined entry throws, which ends every call in progress.
InvokeUpdateState ==
    /\ stack # << >>
    /\ ~Top.cb
    /\ LoopContinues(Top.i, updateStates)
    /\ LET j == updateStates[Top.i + 1]
       IN  IF j = 0
           THEN /\ stack' = << >>
                /\ state' = state
                /\ last' = [NoOp EXCEPT !.op = "set", !.threw = TRUE,
                               !.invoked = stack[1].inv,
                               !.nested = stack[1].nested]
           ELSE /\ state' = [state EXCEPT ![j] =
                       updateState(@, ObservedState(Top.arg, currentState),
                                   phase[j] = "unmounted")]
                /\ stack' = [stack EXCEPT ![Len(stack)] =
                       [@ EXCEPT !.i = @ + 1, !.cb = TRUE,
                                 !.inv = Append(@, j)]]
                /\ last' = [NoOp EXCEPT !.op = "invoke"]
    /\ UNCHANGED <<variant, initialState, currentState, updateStates, _index,
                   phase, initCalls, lastSet, written, other>>

\* The callback being invoked returns to the loop.
UpdateStateReturns ==
    /\ InCallback
    /\ stack' = [stack EXCEPT ![Len(stack)] = [@ EXCEPT !.cb = FALSE]]
    /\ last' = [NoOp EXCEPT !.op = "resume"]
    /\ UNCHANGED <<variant, initialState, currentState, updateStates, _index,
                   state, phase, initCalls, lastSet, written, other>>

\* The test of the innermost loop fails: the call returns to its caller.
SetGlobalStateReturns ==
    /\ stack # << >>
    /\ ~Top.cb
    /\ ~LoopContinues(Top.i, updateStates)
    /\ stack' = SubSeq(stack, 1, Len(stack) - 1)
    /\ last' = [NoOp EXCEPT
                   !.op = IF Len(stack) = 1 THEN "set" ELSE "return",
                   !.invoked = Top.inv, !.nested = Top.nested,
                   !.ret = Top.arg]
    /\ UNCHANGED <<variant, initialState, currentState, updateStates, _index,
                   state, phase, initCalls, lastSet, written, other>>

\* Instance i unmounts before the callback being invoked returns.
UnmountInCallback(i) == InCallback /\ Cleanup(i)

\* Renders, effects and unmounts between setter calls.
BetweenCalls ==
    /\ Idle
    /\ \/ \E i \in LoopInst : UseGlobalState(i)
       \/ \E i \in LoopInst : Effect(i)
       \/ \E i \in LoopInst : Cleanup(i)

\* Callbacks that call the setter; the registry changes between calls only.
NextNested ==
    \/ BetweenCalls
    \/ \E arg \in SetterArgs : CallSetGlobalState(arg)
    \/ \E arg \in SetterArgs : NestedSetGlobalState(arg)
    \/ InvokeUpdateState
    \/ UpdateStateReturns
    \/ SetGlobalStateReturns

SpecNested == Init /\ [][NextNested]_vars

\* Callbacks that unmount instances.
NextUnmount ==
    \/ BetweenCalls
    \/ \E arg \in SetterArgs : CallSetGlobalState(arg)
    \/ \E i \in LoopInst : UnmountInCallback(i)
    \/ InvokeUpdateState
    \/ UpdateStateReturns
    \/ SetGlobalStateReturns

SpecUnmount == Init /\ [][NextUnmount]_vars

\* ------------------------------------------------------ two cells
\* The second cell is made by the same createGlobalState; its instances
\* are other components, numbered in the order of their first renders too.
MaxCellInst == 1
CellInst == 1..MaxCellInst

\* Mutant: currentState is one variable of the module, which every cell uses.
ScopeOfModule(c) == "this"
\* let currentState is in the body of createGlobalState: each call makes the
\* variable that its setter, its hook and its callbacks close over.
ScopeOf(c) == c

\* currentState as the closures of the second cell read it.
OtherCurrentState ==
    IF ScopeOf("other") = "other" THEN other.currentState ELSE currentState

\* The second cell's closures assign cur to currentState and leave its
\* registry as reg, its callbacks' _index as idx, its instances as st and ph.
OtherBecomes(cur, reg, idx, st, ph) ==
    /\ other' = [currentState |-> IF ScopeOf("other") = "other"
                                  THEN cur ELSE other.currentState,
                 updateStates |-> reg, _index |-> idx, state |-> st,
                 phase |-> ph]
    /\ currentState' = IF ScopeOf("other") = "other" THEN currentState ELSE cur
    /\ UNCHANGED <<variant, initialState, updateStates, _index, state, phase,
                   initCalls, lastSet, written, stack>>

\* The second cell's hook called by its instance i.
OtherUseGlobalState(i) ==
    /\ other.phase[i] \in {"none", "rendered", "mounted"}
    /\ i > 1 => other.phase[i - 1] # "none"
    /\ LET first == other.phase[i] = "none"
           snap == IF first THEN useState(OtherCurrentState)
                   ELSE other.state[i]
           r == IF RegistersInThisRender(variant, first)
                THEN Register(other.updateStates, other._index, i)
                ELSE [updateStates |-> other.updateStates,
                      _index |-> other._index]
       IN  /\ OtherBecomes(OtherCurrentState, r.updateStates, r._index,
                           [other.state EXCEPT ![i] = snap],
                           [other.phase EXCEPT
                               ![i] = IF first THEN "rendered" ELSE @])
           /\ last' = [NoOp EXCEPT !.op = "render", !.first = first,
                          !.ret = snap, !.cell = "other"]

\* The mount effect of the second cell's instance i.
OtherEffect(i) ==
    /\ other.phase[i] = "rendered"
    /\ LET r == IF RegistersAtRender(variant)
                THEN [updateStates |-> other.updateStates,
                      _index |-> other._index]
                ELSE Register(other.updateStates, other._index, i)
       IN  OtherBecomes(OtherCurrentState, r.updateStates, r._index,
                        other.state, [other.phase EXCEPT ![i] = "mounted"])
    /\ last' = [NoOp EXCEPT !.op = "effect", !.cell = "other"]

\* The second cell's instance i unmounts.
OtherCleanup(i) ==
    /\ other.phase[i] = "mounted"
    /\ LET r == Deregister(variant, other.updateStates, other._index, i)
       IN  /\ OtherBecomes(OtherCurrentState, r.updateStates, r._index,
                           [other.state EXCEPT ![i] = Undefined],
                           [other.phase EXCEPT ![i] = "unmounted"])
           /\ last' = [NoOp EXCEPT !.op = "cleanup", !.threw = r.threw,
                          !.cell = "other"]

\* The second cell's setter, called from outside any observer callback.
OtherSetGlobalState(arg) ==
    LET new == NewState(variant, arg, OtherCurrentState)
        r == RunLoop(1, other.updateStates, new, other.state,
                     {i \in Inst : other.phase[i] = "unmounted"}, << >>)
    IN  /\ OtherBecomes(new, other.updateStates, other._index, r.state,
                        other.phase)
        /\ last' = [NoOp EXCEPT !.op = "set", !.invoked = r.invoked,
                       !.threw = r.threw, !.ret = new, !.cell = "other"]

NextTwo ==
    \/ \E i \in CellInst : UseGlobalState(i)
    \/ \E i \in CellInst : Effect(i)
    \/ \E i \in CellInst : Cleanup(i)
    \/ \E arg \in SetterArgs : SetGlobalState(arg)
    \/ \E i \in CellInst : OtherUseGlobalState(i)
    \/ \E i \in CellInst : OtherEffect(i)
    \/ \E i \in CellInst : OtherCleanup(i)
    \/ \E arg \in SetterArgs : OtherSetGlobalState(arg)

\* Both cells are made with the same literal value.
InitTwo == InitOf(Variants) /\ initialState = OtherInitialState

SpecTwo == InitTwo /\ [][NextTwo]_vars

\* ------------------------------------------------------------ claims
IsLiteral(x) == x[1] = "num"
Live(i) == phase[i] \in {"rendered", "mounted"}
Range(seq) == {seq[k] : k \in 1..Len(seq)}

\* C1: right after a setter call with a literal value V returns, the local
\* snapshot of every instance that has called the hook and has not been
\* unmounted equals V.
C1_FanOutCompleteness ==
    (last.op = "set" /\ IsLiteral(lastSet)) =>
        \A i \in Inst : Live(i) => state[i] = lastSet

\* C2: a setter call never invokes the callback of an instance whose cleanup
\* has run, and it raises no error.
C2_NoStaleFanOut ==
    last.op = "set" =>
        /\ ~last.threw
        /\ \A k \in 1..Len(last.invoked) : phase[last.invoked[k]] # "unmounted"

\* C3: a setter call made after an instance's first render and before its
\* mount effect is not missed: a mounted instance's snapshot is the literal
\* value V of the most recent setter call (not a value captured earlier).
C3_SynchronousRegistration ==
    IsLiteral(lastSet) =>
        \A i \in Inst : phase[i] = "mounted" => state[i] = lastSet

\* C4 (I1): every slot in the registry has _index equal to its actual index,
\* so the k registered slots hold the positions 0..k-1 and no two share one.
C4_PositionsMatchIndices ==
    /\ \A k \in 1..Len(updateStates) :
        /\ updateStates[k] \in Inst
        /\ _index[updateStates[k]] = k - 1
    /\ \A k1, k2 \in 1..Len(updateStates) :
        k1 # k2 => updateStates[k1] # updateStates[k2]
    /\ {_index[s] : s \in Range(updateStates)} = 0..(Len(updateStates) - 1)

\* C4's case: a cleanup moved the last slot (instance 3) into position 0
\* while another slot stays registered behind it.
C4_Witness ==
    /\ last.op = "cleanup"
    /\ Len(updateStates) = 2
    /\ updateStates[1] = 3
    /\ _index[3] = 0

\* The instances that are to hold a slot: those registered and not yet
\* cleaned up.
ExpectedSlots ==
    {i \in Inst : \/ phase[i] = "mounted"
                  \/ RegistersAtRender(variant) /\ phase[i] = "rendered"}

\* C5: the registry holds exactly one slot per instance that registered and
\* has not been unmounted: a cleanup removes that instance's slot and no other,
\* and the registry is empty when all instances are unmounted.
C5_ExactlyTheMountedSlots ==
    /\ Len(updateStates) = Cardinality(ExpectedSlots)
    /\ Range(updateStates) = ExpectedSlots

\* C6: a setter call with an updater function f, when the current value is v,
\* makes the current value (and what the getter returns) f(v), and the snapshot
\* of every registered instance f(v), never the function f itself.
C6_FunctionalUpdate ==
    [][(last'.op = "set" /\ typeofFunction(lastSet')) =>
          /\ currentState' = Call(lastSet', currentState)
          /\ \A i \in Inst :
                phase'[i] = "mounted" => state'[i] = Call(lastSet', currentState)
      ]_vars

\* C7: the getter returns the cell's current value: the value the cell was
\* constructed with while the setter has never been called, otherwise the value
\* the most recent setter call stored (the literal V after a call with a
\* literal V), whatever was mounted or unmounted in between.
C7_GetterReturnsCurrent ==
    last.op = "get" =>
        /\ last.ret = written
        /\ IsLiteral(lastSet) => last.ret = lastSet
        /\ (lastSet = Undefined /\ IsLiteral(initialState)) =>
                last.ret = initialState

\* C7's case: the getter is called after a setter call changed the value, with
\* one instance unmounted and another still mounted.
C7_Witness ==
    /\ last.op = "get"
    /\ IsLiteral(lastSet)
    /\ last.ret # Construct(variant, initialState)
    /\ \E i, j \in Inst : phase[i] = "unmounted" /\ phase[j] = "mounted"

\* C8: the snapshot a first render returns is the cell's current value at that
\* moment: after any setter calls, the value of the last of them.
C8_FirstRenderSnapshot ==
    (last.op = "render" /\ last.first /\ lastSet # Undefined) =>
        last.ret = currentState

\* C9: an initializer function given to createGlobalState has run exactly
\* once, at construction, whatever happened since.
C9_InitializerOnce ==
    typeofFunction(initialState) => initCalls = 1

\* C10: the setter every hook call returns, for every instance and render, is
\* the setter createGlobalState returned.
C10_SetterIdentity ==
    last.op = "render" => last.setter = SetterOfCell

\* C10's case: a re-render of an instance while a second instance is live.
C10_Witness ==
    /\ last.op = "render"
    /\ ~last.first
    /\ Cardinality({i \in Inst : Live(i)}) >= 2

\* C12: a setter call (not re-entered) raises no error and invokes each slot
\* of the registry exactly once, in ascending index order; the current value
\* is replaced first, so every live instance invoked holds the new value.
C12_FanOutOrdering ==
    last.op = "set" =>
        /\ ~last.threw
        /\ last.invoked = updateStates
        /\ IsLiteral(currentState) =>
              \A k \in 1..Len(last.invoked) :
                  phase[last.invoked[k]] # "unmounted" =>
                      state[last.invoked[k]] = currentState

\* C12's case: a setter call changed the value and went over a registry of two
\* slots or more whose order is not the order of registration.
C12_Witness ==
    /\ last.op = "set"
    /\ IsLiteral(lastSet)
    /\ Len(last.invoked) >= 2
    /\ last.invoked[1] > last.invoked[2]
    /\ \A k \in 1..Len(last.invoked) : phase[last.invoked[k]] = "mounted"

\* C13 (I2): the registry never holds more than one slot for an instance, and
\* never a slot of an instance that has not called the hook, however many
\* times the instances re-render.
C13_OneSlotPerInstance ==
    /\ \A i \in Inst :
          Cardinality({k \in 1..Len(updateStates) : updateStates[k] = i}) <= 1
    /\ \A i \in Inst : phase[i] = "none" => i \notin Range(updateStates)
    /\ Len(updateStates) <= Cardinality({i \in Inst : phase[i] # "none"})

\* C13's case: a registered instance has just re-rendered.
C13_Witness ==
    /\ last.op = "render"
    /\ ~last.first
    /\ Len(updateStates) >= 2
    /\ \E i \in Inst : Live(i) /\ i \in Range(updateStates) /\ state[i] = last.ret

\* C14: only a setter call changes currentState, only a registration (render or
\* effect) or a cleanup changes the registry, a setter call leaves the registry
\* as it is, and a getter call changes neither and registers nothing.
C14_SharedStateFrame ==
    [][/\ currentState' # currentState => last'.op = "set"
       /\ updateStates' # updateStates =>
              last'.op \in {"render", "effect", "cleanup"}
       /\ _index' # _index => last'.op \in {"render", "effect", "cleanup"}
       /\ last'.op = "get" =>
              /\ last'.ret = currentState
              /\ UNCHANGED <<currentState, updateStates, _index, state, phase>>
      ]_vars

\* C14's case: a getter call with two instances registered, after a setter
\* call.
C14_Witness ==
    /\ last.op = "get"
    /\ lastSet # Undefined
    /\ Len(updateStates) >= 2

\* C18: a cleanup leaves currentState as it is, invokes no callback, leaves
\* the snapshot of every instance that stays mounted as it is, and changes
\* the _index of no slot but the one that was last in the registry.
C18_UnmountFrame ==
    [][last'.op = "cleanup" =>
          /\ currentState' = currentState
          /\ last'.invoked = << >>
          /\ \A j \in Inst : phase'[j] # "unmounted" => state'[j] = state[j]
          /\ \A j \in Inst :
                _index'[j] # _index[j] =>
                    /\ Len(updateStates) > 0
                    /\ j = updateStates[Len(updateStates)]
      ]_vars

\* C18's case: a cleanup of the first of three registered slots moved the last
\* slot into its place; the slot in the middle stayed.
C18_Witness ==
    /\ last.op = "cleanup"
    /\ Len(updateStates) = 2
    /\ _index[updateStates[1]] = 0
    /\ updateStates[1] > updateStates[2]
    /\ \E j \in Inst : phase[j] = "mounted" /\ state[j] # Undefined

\* C15: a setter call made by a callback (a nested call) starts while the
\* outer loop waits inside that callback and assigns currentState at once;
\* no outer call advances while a nested call is in progress; the nested call
\* returns only after it invoked every slot of the registry, once each, in
\* index order; every iteration, the outer loop's after the return too,
\* invokes the slot the array holds at the index after the one invoked before.
C15_NestedFanOut ==
    [][/\ (stack # << >> /\ Len(stack') > Len(stack)) =>
              /\ Top.cb
              /\ Len(stack') = Len(stack) + 1
              /\ \A k \in 1..Len(stack) :
                    /\ stack'[k].i = stack[k].i
                    /\ stack'[k].inv = stack[k].inv
                    /\ stack'[k].cb = stack[k].cb
              /\ stack'[Len(stack')].i = 0
              /\ stack'[Len(stack')].inv = << >>
              /\ currentState' = NewState(variant, lastSet', currentState)
              /\ state' = state
       /\ (Len(stack) >= 2 /\ Len(stack') < Len(stack)) =>
              /\ Top.inv = updateStates
              /\ Top.i = Len(updateStates)
              /\ stack' = SubSeq(stack, 1, Len(stack) - 1)
              /\ stack'[Len(stack')].cb
              /\ state' = state
       /\ (stack # << >> /\ Len(stack') = Len(stack)) =>
              /\ \A k \in 1..(Len(stack) - 1) : stack'[k] = stack[k]
              /\ stack'[Len(stack)].inv # Top.inv =>
                    /\ Top.i < Len(updateStates)
                    /\ stack'[Len(stack)].i = Top.i + 1
                    /\ stack'[Len(stack)].inv =
                           Append(Top.inv, updateStates[Top.i + 1])
                    /\ state'[updateStates[Top.i + 1]] =
                           updateState(state[updateStates[Top.i + 1]],
                                       currentState,
                                       phase[updateStates[Top.i + 1]]
                                           = "unmounted")
      ]_vars

\* C15's case: a nested call that assigned another value than the outer one
\* has just returned after invoking both slots, into the callback of the
\* outer loop's first slot; the outer loop has its second slot still to invoke.
C15_Witness ==
    /\ last.op = "return"
    /\ Len(stack) = 1
    /\ Top.cb
    /\ Top.i = 1
    /\ Len(updateStates) = 2
    /\ last.invoked = updateStates
    /\ IsLiteral(currentState)
    /\ IsLiteral(Top.arg)
    /\ currentState # Top.arg

\* C16: when the outermost setter call returns, whatever setter calls its
\* callbacks made, currentState is the value the last assignment wrote and,
\* when that is a literal value, the snapshot of every mounted instance in the
\* registry equals it.
C16_Convergence ==
    (last.op = "set" /\ ~last.threw) =>
        /\ currentState = written
        /\ IsLiteral(currentState) =>
              \A i \in Range(updateStates) :
                  (i # 0 /\ phase[i] # "unmounted") => state[i] = currentState

\* C16's case: the outermost call returned, a callback of it had called the
\* setter with another value, and two instances are registered.
C16_Witness ==
    /\ last.op = "set"
    /\ last.nested
    /\ IsLiteral(last.ret)
    /\ IsLiteral(currentState)
    /\ last.ret # currentState
    /\ Len(updateStates) = 2
    /\ \A i \in Range(updateStates) : phase[i] = "mounted"

\* C17: when a setter call returns, whatever unmounts its callbacks made,
\* every mounted instance in the registry has been invoked by the call and,
\* for a literal value, holds it.
C17_NoSkipOnDeregistration ==
    (last.op = "set" /\ ~last.threw) =>
        \A i \in Range(updateStates) :
            (i # 0 /\ phase[i] = "mounted") =>
                /\ i \in Range(last.invoked)
                /\ IsLiteral(lastSet) => state[i] = lastSet

\* C11: a setter call, a render, a mount or an unmount on one cell leaves the
\* other cell's currentState, registry, _index fields and instances as they
\* are, and a setter call invokes the callbacks of its own registry only.
C11_CellIsolation ==
    [][/\ last'.cell = "other" =>
              /\ UNCHANGED <<currentState, updateStates, _index, state, phase>>
              /\ last'.op = "set" => last'.invoked = other.updateStates
       /\ last'.cell = "this" =>
              /\ other' = other
              /\ last'.op = "set" => last'.invoked = updateStates
      ]_vars

\* C11's case: the second cell's setter has just given its mounted instance a
\* value that the first cell and its mounted instance do not hold.
C11_Witness ==
    /\ last.op = "set"
    /\ last.cell = "other"
    /\ IsLiteral(last.ret)
    /\ other.currentState = last.ret
    /\ Len(other.updateStates) >= 1
    /\ \A i \in Range(other.updateStates) : other.state[i] = last.ret
    /\ Len(updateStates) >= 1
    /\ IsLiteral(currentState)
    /\ currentState # last.ret
    /\ \A i \in Range(updateStates) :
          phase[i] = "mounted" /\ state[i] = currentState

====
